---- MODULE Spec2Model ----
(***************************************************************************)
(* Model of the shop backend's authentication layer: the credential store *)
(* (table "users"), the registration handlers (POST /auth/register and    *)
(* the form POST /register), the login handlers (POST /auth/login and the *)
(* form POST /login), the bearer-token access gate (get_current_user),    *)
(* the protected endpoints behind it, the validation of request bodies    *)
(* and the table "cart" with the repository's listing, total and summary  *)
(* queries on it.                                                         *)
(***************************************************************************)
EXTENDS Integers, FiniteSets, Sequences, TLC

\* ---------------------------------------------------------------- bounds
Usernames == {"user1", "user2"}
Emails == {"e1@x.com", "e2@x.com"}
Passwords == {"secret1", "secret2"}
Salts == {"s1"}
Clients == {"c1", "c2"}
MaxId == 3
MaxTime == 40
TickMinutes == 20
MaxCartId == 2
MaxRows == 101

None == "None"

\* each user's own email address
EmailOf(u) == IF u = "user1" THEN "e1@x.com" ELSE "e2@x.com"

\* ------------------------------------------------------ program constants
ACCESS_TOKEN_EXPIRE_MINUTES == 30
SECRET_KEY == "server-secret"
OtherKeys == {"other-secret"}

VARIABLES users, nextId, reg, resp, now, user_tokens, carts

vars == <<users, nextId, reg, resp, now, user_tokens, carts>>

\* ------------------------------------------------------ credential hasher
get_password_hash(p, salt) == [salt |-> salt, of |-> p]

verify_password(p, digest) == digest = get_password_hash(p, digest.salt)

\* ------------------------------------------------------------ token codec
Sign(sub, iat, exp, key) == [sub |-> sub, iat |-> iat, exp |-> exp, key |-> key]

create_access_token(sub, t, ttl) ==
    [wf |-> TRUE, sub |-> sub, iat |-> t, exp |-> t + ttl,
     sig |-> Sign(sub, t, t + ttl, SECRET_KEY)]

\* create_access_token called without expires_delta: the configured TTL
create_access_token_default_ttl(sub, t) ==
    create_access_token(sub, t, ACCESS_TOKEN_EXPIRE_MINUTES)

NoToken == [wf |-> FALSE, sub |-> None, iat |-> 0, exp |-> 0,
            sig |-> Sign(None, 0, 0, None)]

MalformedToken == [NoToken EXCEPT !.sub = "malformed.token.here"]

decode_access_token(tok, t) ==
    IF ~tok.wf THEN [ok |-> FALSE, err |-> "Malformed", sub |-> None]
    ELSE IF tok.sig # Sign(tok.sub, tok.iat, tok.exp, SECRET_KEY)
         THEN [ok |-> FALSE, err |-> "InvalidSignature", sub |-> None]
    ELSE IF t > tok.exp
         THEN [ok |-> FALSE, err |-> "Expired", sub |-> None]
    ELSE [ok |-> TRUE, err |-> None, sub |-> tok.sub]

\* ------------------------------------------------------- credential store
User(id, username, email, hashed_password) ==
    [id |-> id, username |-> username, email |-> email,
     hashed_password |-> hashed_password, is_active |-> TRUE]

NoUser == [id |-> 0, username |-> None, email |-> None,
           hashed_password |-> get_password_hash(None, None),
           is_active |-> FALSE]

\* select(User).where(User.username == username) ... scalar_one_or_none()
find_by_username(store, username) ==
    IF \E u \in store : u.username = username
    THEN CHOOSE u \in store : u.username = username
    ELSE NoUser

find_by_email(store, email) ==
    IF \E u \in store : u.email = email
    THEN CHOOSE u \in store : u.email = email
    ELSE NoUser

\* the table without its unique constraints
UniqueViolation_unconstrained(store, username, email) == FALSE

\* the unique constraints of the columns username and email
UniqueViolation(store, username, email) ==
    \E u \in store : u.username = username \/ u.email = email

\* a representation that serializes every column of the record
UserInDB_all_columns(u) == u

\* the outward representation of a record (response_model=UserInDB)
UserInDB(u) ==
    [id |-> u.id, username |-> u.username, email |-> u.email,
     is_active |-> u.is_active]

\* ----------------------------------------------------- request validation
\* the strings of the model that email_validator accepts
EmailShaped == Emails

\* a request body that is bound to the handler unvalidated
UserCreate_unvalidated(username, email, password) == TRUE

\* UserCreate: username of 3..50 characters, an EmailStr, password of
\* 6..25 characters
UserCreate(username, email, password) ==
    /\ Len(username) >= 3
    /\ Len(username) <= 50
    /\ email \in EmailShaped
    /\ Len(password) >= 6
    /\ Len(password) <= 25

\* ----------------------------------------------------------- registration
IdleSlot == [pc |-> "idle", path |-> None, username |-> None, email |-> None,
             password |-> None, status |-> 0, detail |-> None,
             user |-> UserInDB(NoUser), token |-> NoToken,
             handler |-> FALSE]

NoHeader == [scheme |-> None, param |-> NoToken]

NoResp == [op |-> None, endpoint |-> None, username |-> None,
           password |-> None, header |-> NoHeader,
           status |-> 0, detail |-> None, www |-> None, token |-> NoToken,
           token_type |-> None, user |-> UserInDB(NoUser), queries |-> 0,
           handler |-> FALSE, caller |-> 0, issued_to |-> 0,
           superseded |-> FALSE,
           items |-> <<>>, total_items |-> 0, total_price |-> 0]

Init ==
    /\ users = {}
    /\ nextId = 1
    /\ reg = [c \in Clients |-> IdleSlot]
    /\ resp = NoResp
    /\ now = 0
    /\ user_tokens = [u \in Usernames |-> NoToken]
    /\ carts = {}

Fail(slot, status, detail) ==
    [slot EXCEPT !.pc = "done", !.status = status, !.detail = detail]

\* the handler without its username check
register_check_username_unchecked(slot, store) == [slot EXCEPT !.pc = "email"]

\* a username check whose query lost its WHERE clause
register_check_username_any_record(slot, store) ==
    IF store # {}
    THEN Fail(slot, 400, "Username already registered")
    ELSE [slot EXCEPT !.pc = "email"]

\* a handler that looks for the email before the username
register_check_username_email_first(slot, store) ==
    IF find_by_email(store, slot.email) # NoUser
    THEN Fail(slot, 400, "Email already registered")
    ELSE IF find_by_username(store, slot.username) # NoUser
    THEN Fail(slot, 400, "Username already registered")
    ELSE [slot EXCEPT !.pc = "email"]

\* POST /auth/register, up to and including the first query
register_check_username(slot, store) ==
    IF find_by_username(store, slot.username) # NoUser
    THEN Fail(slot, 400, "Username already registered")
    ELSE [slot EXCEPT !.pc = "email"]

\* the handler without its email check
register_check_email_unchecked(slot, store) == [slot EXCEPT !.pc = "insert"]

\* POST /auth/register, the second query
register_check_email(slot, store) ==
    IF find_by_email(store, slot.email) # NoUser
    THEN Fail(slot, 400, "Email already registered")
    ELSE [slot EXCEPT !.pc = "insert"]

\* form POST /register, up to and including the first query
form_register_check_username(slot, password_confirm, store) ==
    IF slot.password # password_confirm
    THEN Fail(slot, 400, "passwords do not match")
    ELSE IF find_by_username(store, slot.username) # NoUser
    THEN Fail(slot, 400, "username exists")
    ELSE [slot EXCEPT !.pc = "email"]

\* form POST /register, the second query
form_register_check_email(slot, store) ==
    IF find_by_email(store, slot.email) # NoUser
    THEN Fail(slot, 400, "email exists")
    ELSE [slot EXCEPT !.pc = "insert"]

\* POST /auth/register: the body is validated against UserCreate before
\* the handler is called (422 otherwise)
RegisterApi(c, username, email, password) ==
    /\ reg[c].pc = "idle"
    /\ LET slot == [IdleSlot EXCEPT !.path = "api", !.username = username,
                                    !.email = email, !.password = password]
       IN reg' = [reg EXCEPT ![c] =
                    IF ~UserCreate(username, email, password)
                    THEN Fail(slot, 422, "Unprocessable Entity")
                    ELSE register_check_username(
                             [slot EXCEPT !.handler = TRUE], users)]
    /\ UNCHANGED <<carts, users, nextId, resp, now, user_tokens>>

RegisterForm(c, username, email, password, password_confirm) ==
    /\ reg[c].pc = "idle"
    /\ reg' = [reg EXCEPT ![c] = form_register_check_username(
                  [IdleSlot EXCEPT !.path = "form", !.username = username,
                                   !.email = email, !.password = password,
                                   !.handler = TRUE],
                  password_confirm, users)]
    /\ UNCHANGED <<carts, users, nextId, resp, now, user_tokens>>

RegisterCheckEmail(c) ==
    /\ reg[c].pc = "email"
    /\ reg' = [reg EXCEPT ![c] =
                 IF reg[c].path = "api"
                 THEN register_check_email(reg[c], users)
                 ELSE form_register_check_email(reg[c], users)]
    /\ UNCHANGED <<carts, users, nextId, resp, now, user_tokens>>

\* db.add(new_user); commit; refresh.  The INSERT is subject to the unique
\* constraints; their violation (IntegrityError) is caught by neither
\* handler and surfaces as 500.  The form handler then logs the user in.
RegisterInsert(c, salt) ==
    /\ reg[c].pc = "insert"
    /\ nextId <= MaxId \/ UniqueViolation(users, reg[c].username, reg[c].email)
    /\ LET slot == reg[c]
           new_user == User(nextId, slot.username, slot.email,
                            get_password_hash(slot.password, salt))
           access_token == create_access_token_default_ttl(slot.username, now)
       IN IF UniqueViolation(users, slot.username, slot.email)
          THEN /\ reg' = [reg EXCEPT ![c] =
                            Fail(slot, 500, "Internal Server Error")]
               /\ UNCHANGED <<users, nextId, user_tokens>>
          ELSE /\ users' = users \cup {new_user}
               /\ nextId' = nextId + 1
               /\ IF slot.path = "api"
                  THEN /\ reg' = [reg EXCEPT ![c] =
                                [slot EXCEPT !.pc = "done", !.status = 201,
                                             !.user = UserInDB(new_user)]]
                       /\ UNCHANGED user_tokens
                  ELSE /\ reg' = [reg EXCEPT ![c] =
                                [slot EXCEPT !.pc = "done", !.status = 200,
                                             !.user = UserInDB(new_user),
                                             !.token = access_token]]
                       /\ user_tokens' = [user_tokens EXCEPT
                                            ![slot.username] = access_token]
    /\ UNCHANGED <<carts, resp, now>>

\* the response has been sent and the request's session is closed
RegisterReturn(c) ==
    /\ reg[c].pc = "done"
    /\ reg' = [reg EXCEPT ![c] = IdleSlot]
    /\ UNCHANGED <<carts, users, nextId, resp, now, user_tokens>>

\* ------------------------------------------------------------------ login
\* a login that tells an unknown username from a wrong password
login_user_not_found(store, username, password, t) ==
    LET user == find_by_username(store, username)
        req == [NoResp EXCEPT !.op = "login", !.username = username,
                              !.password = password, !.queries = 1,
                              !.handler = TRUE]
    IN IF user = NoUser
       THEN [req EXCEPT !.status = 404, !.detail = "User not found"]
       ELSE IF ~verify_password(password, user.hashed_password)
       THEN [req EXCEPT !.status = 401,
                        !.detail = "Incorrect username or password",
                        !.www = "Bearer"]
       ELSE IF ~user.is_active
       THEN [req EXCEPT !.status = 400, !.detail = "Inactive user"]
       ELSE [req EXCEPT !.status = 200, !.token_type = "bearer",
                        !.token = create_access_token(user.username, t,
                                      ACCESS_TOKEN_EXPIRE_MINUTES)]

\* a login that puts the email, not the username, into the token's subject
login_sub_email(store, username, password, t) ==
    LET user == find_by_username(store, username)
        req == [NoResp EXCEPT !.op = "login", !.username = username,
                              !.password = password, !.queries = 1,
                              !.handler = TRUE]
    IN IF user = NoUser \/ ~verify_password(password, user.hashed_password)
       THEN [req EXCEPT !.status = 401,
                        !.detail = "Incorrect username or password",
                        !.www = "Bearer"]
       ELSE IF ~user.is_active
       THEN [req EXCEPT !.status = 400, !.detail = "Inactive user"]
       ELSE [req EXCEPT !.status = 200, !.token_type = "bearer",
                        !.token = create_access_token(user.email, t,
                                      ACCESS_TOKEN_EXPIRE_MINUTES)]

\* a login that looks at the active flag before the password
login_active_first(store, username, password, t) ==
    LET user == find_by_username(store, username)
        req == [NoResp EXCEPT !.op = "login", !.username = username,
                              !.password = password, !.queries = 1,
                              !.handler = TRUE,
                              !.caller = user.id]
    IN IF user # NoUser /\ ~user.is_active
       THEN [req EXCEPT !.status = 400, !.detail = "Inactive user"]
       ELSE IF user = NoUser \/ ~verify_password(password, user.hashed_password)
       THEN [req EXCEPT !.status = 401,
                        !.detail = "Incorrect username or password",
                        !.www = "Bearer"]
       ELSE [req EXCEPT !.status = 200, !.token_type = "bearer",
                        !.token = create_access_token(user.username, t,
                                      ACCESS_TOKEN_EXPIRE_MINUTES)]

\* POST /auth/login
login(store, username, password, t) ==
    LET user == find_by_username(store, username)
        req == [NoResp EXCEPT !.op = "login", !.username = username,
                              !.password = password, !.queries = 1,
                              !.handler = TRUE,
                              !.caller = user.id]
    IN IF user = NoUser \/ ~verify_password(password, user.hashed_password)
       THEN [req EXCEPT !.status = 401,
                        !.detail = "Incorrect username or password",
                        !.www = "Bearer"]
       ELSE IF ~user.is_active
       THEN [req EXCEPT !.status = 400, !.detail = "Inactive user"]
       ELSE [req EXCEPT !.status = 200, !.token_type = "bearer",
                        !.token = create_access_token(user.username, t,
                                      ACCESS_TOKEN_EXPIRE_MINUTES)]

\* form POST /login
form_login(store, username, password, t) ==
    LET user == find_by_username(store, username)
        req == [NoResp EXCEPT !.op = "form_login", !.username = username,
                              !.password = password, !.queries = 1,
                              !.handler = TRUE]
    IN IF user = NoUser \/ ~verify_password(password, user.hashed_password)
       THEN [req EXCEPT !.status = 401, !.detail = "login.html error"]
       ELSE [req EXCEPT !.status = 200,
                        !.token = create_access_token_default_ttl(
                                      user.username, t)]

\* a login that creates the record of a username it does not find
LoginApi_provisioning(username, password) ==
    /\ resp' = login(users, username, password, now)
    /\ IF find_by_username(users, username) = NoUser /\ nextId <= MaxId
       THEN /\ users' = users \cup
                  {User(nextId, username, EmailOf(username),
                        get_password_hash(password, CHOOSE s \in Salts : TRUE))}
            /\ nextId' = nextId + 1
       ELSE UNCHANGED <<users, nextId>>
    /\ UNCHANGED <<carts, reg, now, user_tokens>>

LoginApi(username, password) ==
    /\ resp' = login(users, username, password, now)
    /\ UNCHANGED <<carts, users, nextId, reg, now, user_tokens>>

LoginForm(username, password) ==
    /\ resp' = form_login(users, username, password, now)
    /\ user_tokens' = IF resp'.status = 200
                      THEN [user_tokens EXCEPT ![username] = resp'.token]
                      ELSE user_tokens
    /\ UNCHANGED <<carts, users, nextId, reg, now>>

\* ------------------------------------------------------------ access gate
Endpoints == {"me", "refresh", "cart_create", "cart_list", "cart_get",
              "cart_update", "cart_delete", "cart_clear", "cart_total",
              "cart_summary"}

\* str.lower() on the schemes the clients send
Lower(scheme) ==
    CASE scheme = "Bearer" -> "bearer"
      [] scheme = "Basic" -> "basic"
      [] scheme = "InvalidTokenFormat" -> "invalidtokenformat"
      [] OTHER -> scheme

\* a scheme that takes the credentials of any Authorization header
oauth2_scheme_any_scheme(header) ==
    IF header = NoHeader
    THEN [ok |-> FALSE, token |-> NoToken]
    ELSE [ok |-> TRUE, token |-> header.param]

\* OAuth2PasswordBearer(tokenUrl="/auth/login"): the Authorization header
\* must be present and carry the scheme "bearer"
oauth2_scheme(header) ==
    IF header = NoHeader \/ Lower(header.scheme) # "bearer"
    THEN [ok |-> FALSE, token |-> NoToken]
    ELSE [ok |-> TRUE, token |-> header.param]

\* a gate that lets a token's expiry pass
get_current_user_ignoring_expiry(token, store, t) ==
    LET payload == decode_access_token(token, 0)
        user == find_by_username(store, payload.sub)
    IN IF ~payload.ok \/ payload.sub = None
       THEN [ok |-> FALSE, user |-> NoUser, queries |-> 0]
       ELSE IF user = NoUser
       THEN [ok |-> FALSE, user |-> NoUser, queries |-> 1]
       ELSE [ok |-> TRUE, user |-> user, queries |-> 1]

\* a gate that reads the subject of a token without verifying its signature
get_current_user_unverified(token, store, t) ==
    LET user == find_by_username(store, token.sub)
    IN IF ~token.wf \/ t > token.exp \/ token.sub = None
       THEN [ok |-> FALSE, user |-> NoUser, queries |-> 0]
       ELSE IF user = NoUser
       THEN [ok |-> FALSE, user |-> NoUser, queries |-> 1]
       ELSE [ok |-> TRUE, user |-> user, queries |-> 1]

\* a gate that hands the result of the lookup to the handler unexamined
get_current_user_any_record(token, store, t) ==
    LET payload == decode_access_token(token, t)
        user == find_by_username(store, payload.sub)
    IN IF ~payload.ok \/ payload.sub = None
       THEN [ok |-> FALSE, user |-> NoUser, queries |-> 0]
       ELSE [ok |-> TRUE, user |-> user, queries |-> 1]

\* a gate that accepts only the token kept for the user in user_tokens
get_current_user_cached(token, store, t) ==
    LET payload == decode_access_token(token, t)
        user == find_by_username(store, payload.sub)
    IN IF ~payload.ok \/ payload.sub = None
       THEN [ok |-> FALSE, user |-> NoUser, queries |-> 0]
       ELSE IF user = NoUser \/ user_tokens[payload.sub] # token
       THEN [ok |-> FALSE, user |-> NoUser, queries |-> 1]
       ELSE [ok |-> TRUE, user |-> user, queries |-> 1]

\* a gate whose lookup lost its WHERE clause
get_current_user_any_user(token, store, t) ==
    LET payload == decode_access_token(token, t)
        user == IF store = {} THEN NoUser
                ELSE CHOOSE u \in store : \A v \in store : u.id <= v.id
    IN IF ~payload.ok \/ payload.sub = None
       THEN [ok |-> FALSE, user |-> NoUser, queries |-> 0]
       ELSE IF user = NoUser
       THEN [ok |-> FALSE, user |-> NoUser, queries |-> 1]
       ELSE [ok |-> TRUE, user |-> user, queries |-> 1]

\* a gate that refuses the tokens of inactive records
get_current_user_active_only(token, store, t) ==
    LET payload == decode_access_token(token, t)
        user == find_by_username(store, payload.sub)
    IN IF ~payload.ok \/ payload.sub = None
       THEN [ok |-> FALSE, user |-> NoUser, queries |-> 0]
       ELSE IF user = NoUser \/ ~user.is_active
       THEN [ok |-> FALSE, user |-> NoUser, queries |-> 1]
       ELSE [ok |-> TRUE, user |-> user, queries |-> 1]

get_current_user(token, store, t) ==
    LET payload == decode_access_token(token, t)
        user == find_by_username(store, payload.sub)
    IN IF ~payload.ok \/ payload.sub = None
       THEN [ok |-> FALSE, user |-> NoUser, queries |-> 0]
       ELSE IF user = NoUser
       THEN [ok |-> FALSE, user |-> NoUser, queries |-> 1]
       ELSE [ok |-> TRUE, user |-> user, queries |-> 1]

\* a refresh that puts the email, not the username, into the subject
endpoint_handler_refresh_sub_email(req, current_user, t) ==
    CASE req.endpoint = "me" ->
           [req EXCEPT !.status = 200, !.user = UserInDB(current_user)]
      [] req.endpoint = "refresh" ->
           [req EXCEPT !.status = 200, !.token_type = "bearer",
                       !.token = create_access_token_default_ttl(
                                     current_user.email, t)]
      [] req.endpoint = "cart_create" ->
           [req EXCEPT !.status = 400, !.detail = "TypeError"]
      [] OTHER ->
           [req EXCEPT !.status = 500, !.detail = "Internal Server Error"]

\* a refresh that issues its token with a lifetime of its own
endpoint_handler_refresh_short_ttl(req, current_user, t) ==
    CASE req.endpoint = "me" ->
           [req EXCEPT !.status = 200, !.user = UserInDB(current_user)]
      [] req.endpoint = "refresh" ->
           [req EXCEPT !.status = 200, !.token_type = "bearer",
                       !.token = create_access_token(current_user.username,
                                     t, 15)]
      [] req.endpoint = "cart_create" ->
           [req EXCEPT !.status = 400, !.detail = "TypeError"]
      [] OTHER ->
           [req EXCEPT !.status = 500, !.detail = "Internal Server Error"]

\* the handler behind the gate, called with the resolved identity
endpoint_handler(req, current_user, t) ==
    CASE req.endpoint = "me" ->
           [req EXCEPT !.status = 200, !.user = UserInDB(current_user)]
      [] req.endpoint = "refresh" ->
           [req EXCEPT !.status = 200, !.token_type = "bearer",
                       !.token = create_access_token_default_ttl(
                                     current_user.username, t)]
      \* the cart handlers pass current_user.id to CartRepository methods
      \* that take no user id: the call raises TypeError, which
      \* create_cart_item turns into 400 and the others leave uncaught
      [] req.endpoint = "cart_create" ->
           [req EXCEPT !.status = 400, !.detail = "TypeError"]
      [] OTHER ->
           [req EXCEPT !.status = 500, !.detail = "Internal Server Error"]

\* a request to a protected endpoint: dependencies first, then the handler
protected(endpoint, header, store, t) ==
    LET req == [NoResp EXCEPT !.op = "protected", !.endpoint = endpoint,
                              !.header = header]
        bearer == oauth2_scheme(header)
        current == get_current_user(bearer.token, store, t)
    IN IF ~bearer.ok
       THEN [req EXCEPT !.status = 401, !.detail = "Not authenticated",
                        !.www = "Bearer"]
       ELSE IF ~current.ok
       THEN [req EXCEPT !.status = 401,
                        !.detail = "Could not validate credentials",
                        !.www = "Bearer", !.queries = current.queries]
       ELSE endpoint_handler([req EXCEPT !.queries = current.queries,
                                         !.handler = TRUE,
                                         !.caller = current.user.id],
                             current.user, t)

Protected(endpoint, header) ==
    /\ resp' = protected(endpoint, header, users, now)
    /\ UNCHANGED <<carts, users, nextId, reg, now, user_tokens>>

\* the token strings a client can present at time t: tokens of the server's
\* encoder, the latest of them re-signed with another secret or with an
\* altered payload, and strings that are no tokens
IssueTimes(t) == {i \in 0..t : i % TickMinutes = 0}

Latest(t) == CHOOSE i \in IssueTimes(t) : \A j \in IssueTimes(t) : j <= i

Forge(tok, key) ==
    [tok EXCEPT !.sig = Sign(tok.sub, tok.iat, tok.exp, key)]

TokenInputs(t) ==
    LET issued == {create_access_token(s, i, ACCESS_TOKEN_EXPIRE_MINUTES) :
                     s \in Usernames, i \in IssueTimes(t)}
        oldest == {tok \in issued : tok.iat = 0}
    IN issued
       \cup {create_access_token(None, Latest(t), ACCESS_TOKEN_EXPIRE_MINUTES)}
       \cup {Forge(tok, k) : tok \in oldest, k \in OtherKeys}
       \cup {tok \in {[k EXCEPT !.sub = s] : k \in oldest, s \in Usernames} :
               tok \notin oldest}
       \cup {[tok EXCEPT !.exp = tok.exp + ACCESS_TOKEN_EXPIRE_MINUTES] :
               tok \in oldest}
       \cup {MalformedToken, NoToken}

HeaderInputs(t) ==
    {NoHeader, [scheme |-> "InvalidTokenFormat", param |-> NoToken]}
    \cup {[scheme |-> "Bearer", param |-> tok] : tok \in TokenInputs(t)}
    \cup {[scheme |-> "bearer", param |-> tok] :
            tok \in {create_access_token(s, Latest(t),
                         ACCESS_TOKEN_EXPIRE_MINUTES) : s \in Usernames}}
    \cup {[scheme |-> "Basic", param |-> tok] :
            tok \in {create_access_token(s, Latest(t),
                         ACCESS_TOKEN_EXPIRE_MINUTES) : s \in Usernames}}

\* the header of a client that presents the token it received last
HeldHeaders ==
    IF resp.token.wf THEN {[scheme |-> "Bearer", param |-> resp.token]}
    ELSE {}

\* one header of each kind, for the endpoints other than /auth/me
KeyHeaders(t) ==
    {NoHeader, [scheme |-> "InvalidTokenFormat", param |-> NoToken],
     [scheme |-> "Bearer", param |-> MalformedToken]}
    \cup {[scheme |-> "Bearer", param |-> tok] :
            tok \in {create_access_token(s, 0, ACCESS_TOKEN_EXPIRE_MINUTES) :
                       s \in Usernames}}

\* a client presents, as Bearer, a token it holds: the one of the response
\* it has just received or the one it presented last; issued_to keeps the
\* id of the record that the token was issued to, superseded whether the
\* client had been issued a newer token for the presented one before
ProtectedHeld(endpoint) ==
    /\ \E held \in {[token |-> resp.token, issued_to |-> resp.caller,
                     superseded |-> FALSE],
                    [token |-> resp.header.param,
                     issued_to |-> resp.issued_to,
                     superseded |-> resp.superseded \/ resp.token.wf]} :
         /\ held.token.wf
         /\ resp' = [protected(endpoint,
                               [scheme |-> "Bearer", param |-> held.token],
                               users, now)
                       EXCEPT !.issued_to = held.issued_to,
                              !.superseded = held.superseded]
    /\ UNCHANGED <<carts, users, nextId, reg, now, user_tokens>>

\* ------------------------------------------------------------------- cart
\* a row of table "cart"; user_id is a foreign key to users.id, NOT NULL
Cart(id, item, quantity, price, user_id, created_at) ==
    [id |-> id, item |-> item, quantity |-> quantity, price |-> price,
     user_id |-> user_id, created_at |-> created_at]

\* select(Cart).order_by(Cart.created_at.desc()): the sequences of all rows
\* of the table, newest first; rows of equal created_at come in any order
RECURSIVE OrderedByCreatedAtDesc(_)
OrderedByCreatedAtDesc(store) ==
    LET times == {r.created_at : r \in store}
    IN IF store = {} THEN {<<>>}
       ELSE IF Cardinality(times) = 1
       THEN UNION {{<<first>> \o rest :
                      rest \in OrderedByCreatedAtDesc(store \ {first})} :
                   first \in store}
       ELSE LET pivot == CHOOSE t \in times :
                           Cardinality({u \in times : u > t})
                             = Cardinality(times) \div 2
                newer == {r \in store : r.created_at > pivot}
            IN {a \o b : a \in OrderedByCreatedAtDesc(newer),
                         b \in OrderedByCreatedAtDesc(store \ newer)}

\* CartRepository.get_all_cart_items(skip, limit) on the ordered rows: the
\* query has no condition on user_id
get_all_cart_items(ordered, skip, limit) ==
    IF skip >= Len(ordered) THEN <<>>
    ELSE SubSeq(ordered, skip + 1,
                IF skip + limit < Len(ordered) THEN skip + limit
                ELSE Len(ordered))

\* Cart.total_price: Decimal(str(price)) * quantity, exact
total_price(item) == item.price * item.quantity

\* CartRepository.get_cart_total_price(): the sum over every row of the
\* table
RECURSIVE get_cart_total_price(_)
get_cart_total_price(store) ==
    LET ids == {r.id : r \in store}
    IN IF store = {} THEN 0
       ELSE IF Cardinality(store) = 1
       THEN total_price(CHOOSE r \in store : TRUE)
       ELSE LET pivot == CHOOSE i \in ids :
                           Cardinality({j \in ids : j > i})
                             = Cardinality(ids) \div 2
                upper == {r \in store : r.id > pivot}
            IN get_cart_total_price(upper)
               + get_cart_total_price(store \ upper)

\* CartRepository.get_cart_summary(): the items of get_all_cart_items()
\* with its defaults skip=0, limit=100 and the total of
\* get_cart_total_price(); the decimals are written out exactly by str()
get_cart_summary(ordered, store) ==
    LET cart_items == get_all_cart_items(ordered, 0, 100)
    IN [total_items |-> Len(cart_items),
        total_price |-> get_cart_total_price(store),
        items |-> cart_items]

\* repository.get_cart_summary() called as the method is declared
RepositoryGetCartSummary ==
    /\ \E ordered \in OrderedByCreatedAtDesc(carts) :
         LET summary == get_cart_summary(ordered, carts)
         IN resp' = [NoResp EXCEPT !.op = "get_cart_summary",
                                   !.status = 200,
                                   !.items = summary.items,
                                   !.total_items = summary.total_items,
                                   !.total_price = summary.total_price]
    /\ UNCHANGED <<carts, users, nextId, reg, now, user_tokens>>

\* ShoppingCart.get_total_price: repo.get_cart_total_price(self.user_id);
\* the repository method takes no argument, so the call raises TypeError
ShoppingCartGetTotalPrice(user_id) ==
    /\ resp' = [NoResp EXCEPT !.op = "get_total_price", !.caller = user_id,
                              !.status = 500, !.detail = "TypeError"]
    /\ UNCHANGED <<carts, users, nextId, reg, now, user_tokens>>

\* ShoppingCart.get_all_items: repo.get_all_cart_items(self.user_id); the
\* repository method takes (skip, limit), so the user id is bound to skip
ShoppingCartGetAllItems(user_id) ==
    /\ \E ordered \in OrderedByCreatedAtDesc(carts) :
         resp' = [NoResp EXCEPT !.op = "get_all_items", !.caller = user_id,
                                !.status = 200,
                                !.items = get_all_cart_items(ordered,
                                                             user_id, 100)]
    /\ UNCHANGED <<carts, users, nextId, reg, now, user_tokens>>

\* a deletion that leaves the cart rows of the deleted record in place
AdminDelete_no_cascade(id) ==
    /\ \E u \in users : u.id = id
    /\ users' = {u \in users : u.id # id}
    /\ UNCHANGED <<carts, nextId, reg, resp, now, user_tokens>>

\* ------------------------------------------ external administrative action
\* a record is deleted; its cart rows go with it (ondelete="CASCADE")
AdminDelete(id) ==
    /\ \E u \in users : u.id = id
    /\ users' = {u \in users : u.id # id}
    /\ carts' = {row \in carts : row.user_id # id}
    /\ UNCHANGED <<nextId, reg, resp, now, user_tokens>>

AdminDeactivate(id) ==
    /\ \E u \in users : u.id = id /\ u.is_active
    /\ users' = {IF u.id = id THEN [u EXCEPT !.is_active = FALSE] ELSE u
                 : u \in users}
    /\ UNCHANGED <<carts, nextId, reg, resp, now, user_tokens>>

Tick ==
    /\ now + TickMinutes <= MaxTime
    /\ now' = now + TickMinutes
    /\ UNCHANGED <<carts, users, nextId, reg, resp, user_tokens>>

\* ---------------------------------------------------------- specifications
\* registration through both paths by concurrent clients
NextRegister ==
    \/ \E c \in Clients, u \in Usernames, e \in Emails :
           RegisterApi(c, u, e, "secret1")
    \/ \E c \in Clients, u \in Usernames, e \in Emails, pc \in Passwords :
           RegisterForm(c, u, e, "secret1", pc)
    \/ \E c \in Clients : RegisterCheckEmail(c)
    \/ \E c \in Clients, s \in Salts : RegisterInsert(c, s)
    \/ \E c \in Clients : RegisterReturn(c)
    \/ \E id \in 1..MaxId : AdminDelete(id)

SpecRegister == Init /\ [][NextRegister]_vars

\* two clients, one POST /auth/register each, on an empty store
NextRace ==
    \/ \E c \in Clients, u \in Usernames, e \in Emails :
           RegisterApi(c, u, e, "secret1")
    \/ \E c \in Clients : RegisterCheckEmail(c)
    \/ \E c \in Clients, s \in Salts : RegisterInsert(c, s)

SpecRace == Init /\ [][NextRace]_vars

\* registration and login through both login paths
NextLogin ==
    \/ \E u \in Usernames, e \in Emails, p \in Passwords :
           RegisterApi("c1", u, e, p)
    \/ RegisterCheckEmail("c1")
    \/ \E s \in Salts : RegisterInsert("c1", s)
    \/ RegisterReturn("c1")
    \/ \E u \in Usernames, p \in Passwords : LoginApi(u, p)
    \/ \E u \in Usernames, p \in Passwords : LoginForm(u, p)
    \/ \E id \in 1..MaxId : AdminDeactivate(id)
    \/ \E id \in 1..MaxId : AdminDelete(id)

SpecLogin == Init /\ [][NextLogin]_vars

\* registration, login and requests to the protected endpoints over time
NextGate ==
    \/ \E u \in Usernames : RegisterApi("c1", u, EmailOf(u), "secret1")
    \/ RegisterCheckEmail("c1")
    \/ \E s \in Salts : RegisterInsert("c1", s)
    \/ RegisterReturn("c1")
    \/ \E u \in Usernames, p \in Passwords : LoginApi(u, p)
    \/ \E h \in HeaderInputs(now) \cup HeldHeaders : Protected("me", h)
    \/ \E ep \in Endpoints \ {"me"}, h \in KeyHeaders(now) : Protected(ep, h)
    \/ \E id \in 1..MaxId : AdminDelete(id)
    \/ Tick

SpecGate == Init /\ [][NextGate]_vars

\* one client's session: registration, login and the endpoints /auth/me and
\* /auth/refresh, while records are deactivated and deleted
NextSession ==
    \/ \E u \in Usernames : RegisterApi("c1", u, EmailOf(u), "secret1")
    \/ RegisterCheckEmail("c1")
    \/ \E s \in Salts : RegisterInsert("c1", s)
    \/ RegisterReturn("c1")
    \/ \E u \in Usernames, p \in Passwords : LoginApi(u, p)
    \/ \E ep \in {"me", "refresh"}, h \in KeyHeaders(now) \cup HeldHeaders :
           Protected(ep, h)
    \/ \E id \in 1..MaxId : AdminDeactivate(id)
    \/ \E id \in 1..MaxId : AdminDelete(id)
    \/ Tick

SpecSession == Init /\ [][NextSession]_vars

\* request bodies at and beyond the limits of UserCreate
BoundaryUsernames ==
    {"ab", "abc",
     "aaaaaaaaaabbbbbbbbbbccccccccccddddddddddeeeeeeeeee",
     "aaaaaaaaaabbbbbbbbbbccccccccccddddddddddeeeeeeeeeef"}

BoundaryEmails == {"invalid-email"}

BoundaryPasswords ==
    {"12345", "123456", "aaaaaaaaaabbbbbbbbbbccccc",
     "aaaaaaaaaabbbbbbbbbbcccccd"}

\* registration with valid and invalid request bodies
NextValidate ==
    \/ \E u \in Usernames \cup BoundaryUsernames,
          e \in Emails \cup BoundaryEmails,
          p \in {"secret1"} \cup BoundaryPasswords :
           RegisterApi("c1", u, e, p)
    \/ RegisterCheckEmail("c1")
    \/ \E s \in Salts : RegisterInsert("c1", s)
    \/ RegisterReturn("c1")

SpecValidate == Init /\ [][NextValidate]_vars

\* the tables "cart" of at most MaxCartId rows owned by the users 1 and 2
CartTables ==
    LET choices == [1..MaxCartId -> [present : BOOLEAN, user_id : {1, 2},
                                     quantity : {1, 2}, created_at : {0, 1}]]
    IN {{Cart(i, "apple", f[i].quantity, 10, f[i].user_id, f[i].created_at) :
           i \in {k \in 1..MaxCartId : f[k].present}} : f \in choices}

\* two registered users and any cart table
InitCart ==
    /\ users = {User(1, "user1", EmailOf("user1"),
                     get_password_hash("secret1", "s1")),
                User(2, "user2", EmailOf("user2"),
                     get_password_hash("secret2", "s1"))}
    /\ nextId = 3
    /\ reg = [c \in Clients |-> IdleSlot]
    /\ resp = NoResp
    /\ now = 0
    /\ user_tokens = [u \in Usernames |-> NoToken]
    /\ carts \in CartTables

\* the cart operations of authenticated users on any cart table
NextCart ==
    \/ \E id \in 1..2 : ShoppingCartGetAllItems(id)
    \/ \E id \in 1..2 : ShoppingCartGetTotalPrice(id)
    \/ \E ep \in Endpoints \ {"me", "refresh"},
          u \in Usernames :
           Protected(ep, [scheme |-> "Bearer",
                          param |-> create_access_token(u, 0,
                                        ACCESS_TOKEN_EXPIRE_MINUTES)])
    \/ \E id \in 1..2 : AdminDelete(id)

SpecCart == InitCart /\ [][NextCart]_vars

\* the tables "cart" of n rows, one created after the other, owned in turn
\* by the users 1 and 2
SummaryTables ==
    {{Cart(i, "apple", 1, 10, 1 + (i % 2), i) : i \in 1..n} : n \in 0..MaxRows}

InitSummary ==
    /\ users = {User(1, "user1", EmailOf("user1"),
                     get_password_hash("secret1", "s1")),
                User(2, "user2", EmailOf("user2"),
                     get_password_hash("secret2", "s1"))}
    /\ nextId = 3
    /\ reg = [c \in Clients |-> IdleSlot]
    /\ resp = NoResp
    /\ now = 0
    /\ user_tokens = [u \in Usernames |-> NoToken]
    /\ carts \in SummaryTables

\* the summary of carts of any size, read as the repository declares it and
\* through GET /cart/summary/full
NextSummary ==
    \/ RepositoryGetCartSummary
    \/ \E u \in Usernames :
           Protected("cart_summary",
                     [scheme |-> "Bearer",
                      param |-> create_access_token(u, 0,
                                    ACCESS_TOKEN_EXPIRE_MINUTES)])
    \/ \E id \in 1..2 : AdminDelete(id)

SpecSummary == InitSummary /\ [][NextSummary]_vars

\* one endpoint of each kind of handler
HeldEndpoints == {"me", "refresh", "cart_create", "cart_list"}

\* a client that uses the tokens it was issued while records are
\* deactivated, deleted and registered again
NextHeld ==
    \/ \E u \in Usernames : RegisterApi("c1", u, EmailOf(u), "secret1")
    \/ RegisterCheckEmail("c1")
    \/ \E s \in Salts : RegisterInsert("c1", s)
    \/ RegisterReturn("c1")
    \/ \E u \in Usernames : LoginApi(u, "secret1")
    \/ \E ep \in HeldEndpoints : ProtectedHeld(ep)
    \/ \E id \in 1..MaxId : AdminDeactivate(id)
    \/ \E id \in 1..MaxId : AdminDelete(id)
    \/ Tick

SpecHeld == Init /\ [][NextHeld]_vars

\* ------------------------------------------------------------- properties
UsernameTaken(store, username) == \E u \in store : u.username = username

EmailTaken(store, email) == \E u \in store : u.email = email

\* C3: a POST /auth/register whose username is already in the store when
\* the request arrives is answered 400 "Username already registered",
\* whatever its email, and the step leaves the credential store unchanged.
C3_DuplicateUsername ==
    [][\A c \in Clients :
         (/\ reg[c].pc = "idle"
          /\ reg'[c].pc # "idle"
          /\ reg'[c].path = "api"
          /\ UsernameTaken(users, reg'[c].username))
         => (/\ reg'[c].pc = "done"
             /\ reg'[c].status = 400
             /\ reg'[c].detail = "Username already registered"
             /\ users' = users)]_vars

\* a duplicate username with a new email has been refused
C3_Witness ==
    \E c \in Clients :
      /\ reg[c].pc = "done"
      /\ reg[c].path = "api"
      /\ reg[c].status = 400
      /\ reg[c].detail = "Username already registered"
      /\ UsernameTaken(users, reg[c].username)
      /\ ~EmailTaken(users, reg[c].email)

\* C4: a POST /auth/register that passed the username check (its username
\* was new) and whose email is in the store when the email check runs is
\* answered 400 "Email already registered", and the step leaves the
\* credential store unchanged.
C4_DuplicateEmail ==
    [][\A c \in Clients :
         (/\ reg[c].pc = "email"
          /\ reg[c].path = "api"
          /\ reg'[c] # reg[c]
          /\ EmailTaken(users, reg[c].email))
         => (/\ reg'[c].pc = "done"
             /\ reg'[c].status = 400
             /\ reg'[c].detail = "Email already registered"
             /\ users' = users)]_vars

\* a new username with a duplicate email has been refused
C4_Witness ==
    \E c \in Clients :
      /\ reg[c].pc = "done"
      /\ reg[c].path = "api"
      /\ reg[c].status = 400
      /\ reg[c].detail = "Email already registered"
      /\ ~UsernameTaken(users, reg[c].username)
      /\ EmailTaken(users, reg[c].email)

\* C5: when two POST /auth/register requests with the same username have
\* both been answered, one answer is 201, the other is 400 "Username
\* already registered", and the store holds exactly one record of that
\* username.
C5_ConcurrentSameUsername ==
    \A c, d \in Clients :
      (/\ c # d
       /\ reg[c].pc = "done"
       /\ reg[d].pc = "done"
       /\ reg[c].username = reg[d].username)
      => /\ \/ /\ reg[c].status = 201
               /\ reg[d].status = 400
               /\ reg[d].detail = "Username already registered"
            \/ /\ reg[d].status = 201
               /\ reg[c].status = 400
               /\ reg[c].detail = "Username already registered"
         /\ Cardinality({u \in users : u.username = reg[c].username}) = 1

\* C6: in every reachable state of the credential store no two records
\* share a username and no two records share an email (nor an id).
C6_UniqueUsernameEmail ==
    \A a, b \in users :
      a # b => /\ a.username # b.username
               /\ a.email # b.email
               /\ a.id # b.id

\* two records are stored and an insert that lost a race was refused by
\* the unique constraints
C6_Witness ==
    /\ Cardinality(users) = 2
    /\ \E c \in Clients : reg[c].pc = "done" /\ reg[c].status = 500

\* the part of a response that the client sees
Outcome(r) ==
    [status |-> r.status, detail |-> r.detail, www |-> r.www,
     token |-> r.token, user |-> r.user]

InvalidCredentials ==
    [status |-> 401, detail |-> "Incorrect username or password",
     www |-> "Bearer", token |-> NoToken, user |-> UserInDB(NoUser)]

\* C2: a POST /auth/login whose username is not in the store and a POST
\* /auth/login whose username is in the store but whose password does not
\* verify are both answered with the same outcome: 401, detail "Incorrect
\* username or password", header WWW-Authenticate: Bearer, no token.
C2_LoginFailuresIdentical ==
    [][(/\ resp' # resp
        /\ resp'.op = "login"
        /\ \/ ~UsernameTaken(users, resp'.username)
           \/ \E u \in users :
                /\ u.username = resp'.username
                /\ ~verify_password(resp'.password, u.hashed_password))
       => Outcome(resp') = InvalidCredentials]_vars

\* an existing username has been refused for a wrong password
C2_Witness ==
    /\ resp.op = "login"
    /\ resp.status = 401
    /\ \E u \in users :
         /\ u.username = resp.username
         /\ u.is_active
         /\ ~verify_password(resp.password, u.hashed_password)

\* C7: no login operation, POST /auth/login or the form POST /login,
\* returns a token for a record whose is_active is false.
C7_InactiveNeverGetsToken ==
    [][(/\ resp' # resp
        /\ resp'.op \in {"login", "form_login"}
        /\ \E u \in users : u.username = resp'.username /\ ~u.is_active)
       => resp'.token = NoToken]_vars

\* C1: a POST /auth/register whose username and email are not in the store
\* passes both checks, is answered 201 and stores the record; a login with
\* the registered username and password, while that record is in the
\* store, is answered 200 with a token; and GET /auth/me with that token,
\* while the token has not expired and the username has a record, is
\* answered 200 with a record of the same username.
C1_RegisterLoginAuthenticate ==
    [][/\ \A c \in Clients :
            (/\ reg'[c] # reg[c]
             /\ reg'[c].pc # "idle"
             /\ reg'[c].path = "api"
             /\ ~UsernameTaken(users, reg'[c].username)
             /\ ~EmailTaken(users, reg'[c].email))
            => /\ reg'[c].pc \in {"email", "insert", "done"}
               /\ reg'[c].pc = "done" =>
                    /\ reg'[c].status = 201
                    /\ reg'[c].user.username = reg'[c].username
                    /\ \E u \in users' : UserInDB(u) = reg'[c].user
       /\ \A c \in Clients :
            (/\ reg[c].pc = "done"
             /\ reg[c].status = 201
             /\ \E u \in users : UserInDB(u) = reg[c].user
             /\ resp' # resp
             /\ resp'.op = "login"
             /\ resp'.username = reg[c].username
             /\ resp'.password = reg[c].password)
            => /\ resp'.status = 200
               /\ resp'.token.wf
       /\ (/\ resp.op = "login"
           /\ resp.status = 200
           /\ resp'.op = "protected"
           /\ resp'.endpoint = "me"
           /\ resp'.header = [scheme |-> "Bearer", param |-> resp.token]
           /\ now <= resp.token.exp
           /\ UsernameTaken(users, resp.username))
          => /\ resp'.status = 200
             /\ resp'.user.username = resp.username]_vars

\* the registered user's token of an earlier time has resolved to the
\* registered record
C1_Witness ==
    /\ resp.op = "protected"
    /\ resp.endpoint = "me"
    /\ resp.status = 200
    /\ resp.header.param.iat < now
    /\ \E c \in Clients :
         /\ reg[c].pc = "done"
         /\ reg[c].status = 201
         /\ reg[c].user = resp.user
         /\ reg[c].username = resp.header.param.sub

BearerScheme(header) ==
    header # NoHeader /\ header.scheme \in {"Bearer", "bearer"}

\* C8: a request to /auth/me, /auth/refresh or a /cart route whose
\* Authorization header is absent, carries another scheme than Bearer or
\* carries no token is answered 401 with no query run and the endpoint's
\* handler not called.
C8_GateBeforeHandler ==
    (/\ resp.op = "protected"
     /\ ~BearerScheme(resp.header) \/ resp.header.param = NoToken)
    => /\ resp.endpoint \in Endpoints
       /\ resp.status = 401
       /\ resp.queries = 0
       /\ ~resp.handler

\* a cart route has refused a header that is not of the Bearer scheme
C8_Witness ==
    /\ resp.op = "protected"
    /\ resp.endpoint = "cart_list"
    /\ resp.header.scheme = "InvalidTokenFormat"
    /\ resp.status = 401
    /\ resp.detail = "Not authenticated"

\* every token string of the model
AllTokens == TokenInputs(MaxTime)

\* C9: a request to a protected endpoint whose token's expiry time has
\* passed is answered 401, and a token that is expired stays expired.
C9_ExpiredRejected ==
    [][/\ (/\ resp' # resp
           /\ resp'.op = "protected"
           /\ resp'.header.param.wf
           /\ now > resp'.header.param.exp)
          => (resp'.status = 401 /\ ~resp'.handler)
       /\ \A tok \in AllTokens :
            now > tok.exp => now' > tok.exp]_vars

\* a token of the server, of a username with a record, has been refused
\* after its expiry
C9_Witness ==
    /\ resp.op = "protected"
    /\ resp.status = 401
    /\ BearerScheme(resp.header)
    /\ resp.header.param =
         create_access_token(resp.header.param.sub, resp.header.param.iat,
                             ACCESS_TOKEN_EXPIRE_MINUTES)
    /\ UsernameTaken(users, resp.header.param.sub)
    /\ now > resp.header.param.exp

\* the token strings of the server's encoder under the configured secret
ServerToken(tok) ==
    /\ tok.wf
    /\ tok.sig = Sign(tok.sub, tok.iat, tok.exp, SECRET_KEY)

\* C10: a request to a protected endpoint whose token is not a token of the
\* server's encoder under the configured secret (signed with another
\* secret, payload or signature altered, or not a token) is answered 401
\* and resolves no identity.
C10_OnlyServerTokens ==
    (/\ resp.op = "protected"
     /\ ~ServerToken(resp.header.param))
    => /\ resp.status = 401
       /\ ~resp.handler
       /\ resp.user = UserInDB(NoUser)

\* an unexpired token of an existing username, signed with another secret,
\* has been refused
C10_Witness ==
    /\ resp.op = "protected"
    /\ resp.status = 401
    /\ BearerScheme(resp.header)
    /\ resp.header.param.wf
    /\ resp.header.param.sig.key \in OtherKeys
    /\ UsernameTaken(users, resp.header.param.sub)
    /\ now <= resp.header.param.exp

\* C11: a request to a protected endpoint whose bearer token is a token of
\* the server, not expired, and whose subject is missing or is the username
\* of no record in the store is answered 401 with WWW-Authenticate: Bearer,
\* and its handler does not run.
C11_UnknownSubjectRejected ==
    [][(/\ resp' # resp
        /\ resp'.op = "protected"
        /\ BearerScheme(resp'.header)
        /\ ServerToken(resp'.header.param)
        /\ now <= resp'.header.param.exp
        /\ \/ resp'.header.param.sub = None
           \/ ~UsernameTaken(users, resp'.header.param.sub))
       => (/\ resp'.status = 401
           /\ resp'.www = "Bearer"
           /\ ~resp'.handler
           /\ resp'.user = UserInDB(NoUser))]_vars

\* an unexpired token of the server has been refused after the lookup of
\* its subject, a username whose record is no longer in the store
C11_Witness ==
    /\ resp.op = "protected"
    /\ resp.status = 401
    /\ resp.queries = 1
    /\ BearerScheme(resp.header)
    /\ ServerToken(resp.header.param)
    /\ resp.header.param.sub \in Usernames
    /\ now <= resp.header.param.exp
    /\ ~UsernameTaken(users, resp.header.param.sub)
    /\ nextId > 1

\* C12: a POST /auth/refresh whose gate resolved an identity carries no
\* password and is answered 200 with token_type "bearer" and a token of the
\* server whose subject is the username of the resolved record, whether
\* that record is active or not.
C12_RefreshIssuesForIdentity ==
    [][(/\ resp' # resp
        /\ resp'.op = "protected"
        /\ resp'.endpoint = "refresh"
        /\ resp'.handler)
       => (/\ resp'.status = 200
           /\ resp'.password = None
           /\ resp'.token_type = "bearer"
           /\ ServerToken(resp'.token)
           /\ \E u \in users :
                /\ u.username = resp'.header.param.sub
                /\ resp'.token.sub = u.username)]_vars

\* a refresh at a later time than the presented token's issue has returned
\* a new token of the same subject
C12_Witness ==
    /\ resp.op = "protected"
    /\ resp.endpoint = "refresh"
    /\ resp.status = 200
    /\ resp.token_type = "bearer"
    /\ resp.token.sub = resp.header.param.sub
    /\ resp.token.sub \in Usernames
    /\ resp.token.iat > resp.header.param.iat

\* C13: every token issued by POST /auth/login or POST /auth/refresh is
\* issued at the time of the request and expires
\* ACCESS_TOKEN_EXPIRE_MINUTES (30) after its issue: both use the same TTL.
C13_FixedTtl ==
    [][(/\ resp' # resp
        /\ resp'.op \in {"login", "protected"}
        /\ resp'.token # NoToken)
       => (/\ resp'.token.iat = now
           /\ resp'.token.exp = resp'.token.iat + ACCESS_TOKEN_EXPIRE_MINUTES
           /\ ACCESS_TOKEN_EXPIRE_MINUTES = 30)]_vars

\* a refresh has returned a token that expires 30 minutes after its issue,
\* presented with a token of a login
C13_Witness ==
    /\ resp.op = "protected"
    /\ resp.endpoint = "refresh"
    /\ resp.status = 200
    /\ resp.token.iat = now
    /\ now > 0
    /\ resp.token.exp = now + 30
    /\ resp.header.param.exp = resp.header.param.iat + 30

\* the fields of the representation of a record that is sent to clients
ClientFields == {"id", "username", "email", "is_active"}

\* C16: the user representation in every response of register, login,
\* refresh and me has the fields id, username, email and is_active and no
\* other, so neither the stored digest nor the password is part of it; the
\* other parts of a response are the status, a fixed detail text and a token
\* whose subject is a username or absent.
C16_NoPasswordInResponse ==
    /\ resp.user.id # 0 =>
         /\ DOMAIN resp.user = ClientFields
         /\ resp.user.username \notin Passwords
         /\ resp.user.email \notin Passwords
    /\ resp.token.sub \notin Passwords
    /\ resp.detail \notin Passwords
    /\ \A c \in Clients :
         /\ reg[c].user.id # 0 =>
              /\ DOMAIN reg[c].user = ClientFields
              /\ reg[c].user.username \notin Passwords
              /\ reg[c].user.email \notin Passwords
         /\ reg[c].detail \notin Passwords

\* /auth/me has returned the representation of a record whose digest of
\* the password is in the store
C16_Witness ==
    /\ resp.op = "protected"
    /\ resp.endpoint = "me"
    /\ resp.status = 200
    /\ \E u \in users :
         /\ resp.user = UserInDB(u)
         /\ verify_password("secret1", u.hashed_password)

\* C19: a POST /auth/login and a request to /auth/me or /auth/refresh,
\* answered with success or with an error, leave the credential store as it
\* was, and a record with a new id enters the store only in the insert step
\* of a registration.
C19_StoreUnchanged ==
    [][/\ (/\ resp' # resp
           /\ resp'.op \in {"login", "protected"})
          => (users' = users /\ nextId' = nextId)
       /\ \A u \in users' :
            (\A v \in users : v.id # u.id)
            => \E c \in Clients :
                 /\ reg[c].pc = "insert"
                 /\ reg'[c].pc = "done"
                 /\ reg'[c].status = 201
                 /\ reg'[c].user = UserInDB(u)]_vars

\* a login of a username without record has been refused and the store
\* holds the records it held
C19_Witness ==
    /\ resp.op = "login"
    /\ resp.status = 401
    /\ ~UsernameTaken(users, resp.username)
    /\ users # {}
    /\ nextId = Cardinality(users) + 1

\* C17: the server keeps no token between requests: in every reachable
\* state the map user_tokens of main.py holds no token for any username.
C17_NoTokenStored == \A u \in Usernames : user_tokens[u] = NoToken

\* the request bodies that UserCreate must refuse
InvalidBody(username, email, password) ==
    \/ Len(username) < 3
    \/ Len(username) > 50
    \/ email \in BoundaryEmails
    \/ Len(password) < 6
    \/ Len(password) > 25

\* C18: a POST /auth/register whose username has fewer than 3 or more than
\* 50 characters, whose email is not email-shaped or whose password has
\* fewer than 6 or more than 25 characters is answered 422 without the
\* handler being entered, and the step leaves the credential store
\* unchanged.
C18_InvalidBodyRejected ==
    [][\A c \in Clients :
         (/\ reg[c].pc = "idle"
          /\ reg'[c].pc # "idle"
          /\ reg'[c].path = "api"
          /\ InvalidBody(reg'[c].username, reg'[c].email, reg'[c].password))
         => (/\ reg'[c].pc = "done"
             /\ reg'[c].status = 422
             /\ ~reg'[c].handler
             /\ users' = users
             /\ nextId' = nextId)]_vars

\* a body whose only defect is a password of 26 characters has been refused
\* while its username and email were new to the store
C18_Witness ==
    \E c \in Clients :
      /\ reg[c].pc = "done"
      /\ reg[c].status = 422
      /\ Len(reg[c].password) = 26
      /\ Len(reg[c].username) \in 3..50
      /\ reg[c].email \in EmailShaped
      /\ ~UsernameTaken(users, reg[c].username)
      /\ ~EmailTaken(users, reg[c].email)

\* C20: when two POST /auth/register with different usernames and different
\* emails run concurrently on an empty store and both have been answered,
\* both answers are 201 and the store holds a record of each username,
\* however their steps interleave.
C20_ConcurrentDistinct ==
    \A c, d \in Clients :
      (/\ c # d
       /\ reg[c].pc = "done"
       /\ reg[d].pc = "done"
       /\ reg[c].username # reg[d].username
       /\ reg[c].email # reg[d].email)
      => /\ reg[c].status = 201
         /\ reg[d].status = 201
         /\ UsernameTaken(users, reg[c].username)
         /\ UsernameTaken(users, reg[d].username)
         /\ Cardinality(users) = 2

\* two registrations with different usernames and emails have both been
\* answered 201
C20_Witness ==
    \E c, d \in Clients :
      /\ c # d
      /\ reg[c].pc = "done"
      /\ reg[d].pc = "done"
      /\ reg[c].username # reg[d].username
      /\ reg[c].email # reg[d].email
      /\ reg[c].status = 201
      /\ reg[d].status = 201
      /\ reg[c].user.id # reg[d].user.id

CartReads == {"cart_list", "cart_get", "cart_total", "cart_summary"}

CartWrites == {"cart_create", "cart_update", "cart_delete", "cart_clear"}

\* C14: every cart row returned by a cart read called for a user (a request
\* to GET /cart/, /cart/{item_id}, /cart/total/price or /cart/summary/full
\* that passed the gate, or get_all_cart_items called with the user's id)
\* has that user's id as its user_id.
C14_ReadsScopedToOwner ==
    (\/ resp.op = "get_all_items"
     \/ resp.op = "protected" /\ resp.endpoint \in CartReads)
    => \A k \in 1..Len(resp.items) : resp.items[k].user_id = resp.caller

\* C15: a cart write request of a user that passed the gate leaves every
\* row of every other user in the table unchanged, and a create request
\* adds a row whose user_id is the id of that user.
C15_WritesScopedToOwner ==
    [][(/\ resp' # resp
        /\ resp'.op = "protected"
        /\ resp'.endpoint \in CartWrites
        /\ resp'.handler)
       => (/\ \A row \in carts : row.user_id # resp'.caller => row \in carts'
           /\ resp'.endpoint = "cart_create"
              => \E row \in carts' \ carts : row.user_id = resp'.caller)]_vars

\* the sum of price times quantity over the rows of one user
RECURSIVE OwnerTotal(_, _)
OwnerTotal(store, user_id) ==
    IF store = {} THEN 0
    ELSE LET row == CHOOSE r \in store : TRUE
         IN (IF row.user_id = user_id THEN row.price * row.quantity ELSE 0)
            + OwnerTotal(store \ {row}, user_id)

\* C21: a total-price read for a user (GET /cart/total/price that passed
\* the gate, or ShoppingCart.get_total_price) returns the sum of price
\* times quantity over the rows of that user, which is 0 when the user has
\* no row.
C21_TotalPriceOfOwner ==
    [][(/\ resp' # resp
        /\ \/ resp'.op = "get_total_price"
           \/ resp'.op = "protected" /\ resp'.endpoint = "cart_total"
                                     /\ resp'.handler)
       => (/\ resp'.status = 200
           /\ resp'.total_price = OwnerTotal(carts, resp'.caller))]_vars

\* the sum of the total_price of the entries lo..hi of a list of items
RECURSIVE SumOfItems(_, _, _)
SumOfItems(items, lo, hi) ==
    IF lo > hi THEN 0
    ELSE IF lo = hi THEN total_price(items[lo])
    ELSE SumOfItems(items, lo, (lo + hi) \div 2)
         + SumOfItems(items, (lo + hi) \div 2 + 1, hi)

\* C29: in every result of get_cart_summary, total_items is the number of
\* entries of items and total_price is the sum of the total_price of the
\* entries of items, whatever the number of rows in the table.
C29_SummaryConsistent ==
    resp.op = "get_cart_summary"
    => /\ resp.total_items = Len(resp.items)
       /\ resp.total_price = SumOfItems(resp.items, 1, Len(resp.items))

\* C22: in every reachable state the user_id of every cart row is the id of
\* a record in the credential store: the deletion of a record takes the
\* cart rows of that record with it.
C22_NoOrphanedCartItems ==
    \A row \in carts : \E u \in users : u.id = row.user_id

\* a listing has returned a row of user 2; since then the record of user 2
\* has been deleted, no row of user 2 is left and a row of user 1 remains
C22_Witness ==
    /\ resp.op = "get_all_items"
    /\ \E k \in 1..Len(resp.items) : resp.items[k].user_id = 2
    /\ \A u \in users : u.id # 2
    /\ \A row \in carts : row.user_id = 1
    /\ carts # {}

\* C23: a POST /auth/register whose username and whose email are both in
\* the store when the request arrives, on one record or on two, is answered
\* 400 "Username already registered", not "Email already registered".
C23_UsernameBeforeEmail ==
    [][\A c \in Clients :
         (/\ reg[c].pc = "idle"
          /\ reg'[c].pc # "idle"
          /\ reg'[c].path = "api"
          /\ UsernameTaken(users, reg'[c].username)
          /\ EmailTaken(users, reg'[c].email))
         => (/\ reg'[c].pc = "done"
             /\ reg'[c].status = 400
             /\ reg'[c].detail = "Username already registered"
             /\ reg'[c].detail # "Email already registered")]_vars

\* a request whose username is on one record and whose email is on another
\* has been refused for its username
C23_Witness ==
    \E c \in Clients :
      /\ reg[c].pc = "done"
      /\ reg[c].path = "api"
      /\ reg[c].status = 400
      /\ reg[c].detail = "Username already registered"
      /\ \E a, b \in users :
           /\ a # b
           /\ a.username = reg[c].username
           /\ b.email = reg[c].email

\* C24: a POST /auth/login for the username of an inactive record is
\* answered 401 "Incorrect username or password" when the password does
\* not verify, exactly as for a username without record, and 400 "Inactive
\* user" only when the password verifies.
C24_PasswordBeforeActiveFlag ==
    [][(/\ resp' # resp
        /\ resp'.op = "login"
        /\ \E u \in users : u.username = resp'.username /\ ~u.is_active)
       => LET u == find_by_username(users, resp'.username)
          IN IF verify_password(resp'.password, u.hashed_password)
             THEN resp'.status = 400 /\ resp'.detail = "Inactive user"
             ELSE Outcome(resp') = InvalidCredentials]_vars

\* a login with a wrong password for the username of an inactive record
\* has been answered 401
C24_Witness ==
    /\ resp.op = "login"
    /\ resp.status = 401
    /\ \E u \in users :
         /\ u.username = resp.username
         /\ ~u.is_active
         /\ ~verify_password(resp.password, u.hashed_password)

\* C25: a token that was issued by a login or a refresh is accepted by the
\* gate at every time up to its expiry at which a record of its subject is
\* in the store, and no login or refresh turns a token that the gate
\* accepts into one that it refuses.
C25_NoRevocation ==
    [][/\ (/\ resp' # resp
           /\ resp'.op = "protected"
           /\ resp'.issued_to # 0
           /\ now <= resp'.header.param.exp
           /\ UsernameTaken(users, resp'.header.param.sub))
          => (resp'.handler /\ resp'.status # 401)
       /\ (/\ resp' # resp
           /\ resp'.token # NoToken)
          => \A tok \in AllTokens :
               get_current_user(tok, users, now).ok
               => get_current_user(tok, users', now').ok]_vars

\* a token has been accepted by /auth/me after the client had obtained a
\* newer token for it from /auth/refresh
C25_Witness ==
    /\ resp.op = "protected"
    /\ resp.endpoint = "me"
    /\ resp.status = 200
    /\ resp.issued_to # 0
    /\ resp.superseded
    /\ resp.user.username = resp.header.param.sub

\* C26 as stated: a request that presents a token and passes the gate is
\* resolved to the record (same id) that the token was issued to.
C26_ResolvesIssuedRecord ==
    (/\ resp.op = "protected"
     /\ resp.handler
     /\ resp.issued_to # 0)
    => resp.caller = resp.issued_to

\* C26 amended: a request that presents a token and passes the gate is
\* resolved to the record whose username is the token's subject; that is
\* the record the token was issued to while it is in the store, and
\* another record only after the issued-to record was deleted.
C26_ResolvesBySubject ==
    [][(/\ resp' # resp
        /\ resp'.op = "protected"
        /\ resp'.handler
        /\ resp'.issued_to # 0)
       => \E u \in users :
            /\ u.id = resp'.caller
            /\ u.username = resp'.header.param.sub
            /\ \/ u.id = resp'.issued_to
               \/ \A v \in users : v.id # resp'.issued_to]_vars

\* a token issued to a record that was deleted has been resolved to the
\* record that registered the same username afterwards
C26_Witness ==
    /\ resp.op = "protected"
    /\ resp.handler
    /\ resp.issued_to # 0
    /\ resp.caller # resp.issued_to
    /\ resp.caller > resp.issued_to
    /\ \A v \in users : v.id # resp.issued_to

\* C27: a request whose bearer token is a token of the server, not expired,
\* with the username of an inactive record as subject, passes the gate and
\* is resolved to that record, on /auth/me, /auth/refresh and the cart
\* routes alike; /auth/me and /auth/refresh answer 200.
C27_GateIgnoresActiveFlag ==
    [][(/\ resp' # resp
        /\ resp'.op = "protected"
        /\ BearerScheme(resp'.header)
        /\ ServerToken(resp'.header.param)
        /\ now <= resp'.header.param.exp
        /\ \E u \in users : /\ u.username = resp'.header.param.sub
                            /\ ~u.is_active)
       => (/\ resp'.handler
           /\ resp'.status # 401
           /\ resp'.caller = find_by_username(users,
                                              resp'.header.param.sub).id
           /\ resp'.endpoint \in {"me", "refresh"} => resp'.status = 200)]_vars

\* /auth/me has returned the representation of an inactive record to the
\* bearer of a token issued to that record
C27_Witness ==
    /\ resp.op = "protected"
    /\ resp.endpoint = "me"
    /\ resp.status = 200
    /\ ~resp.user.is_active
    /\ resp.issued_to = resp.user.id

\* C28: a POST /cart/ of a user that passed the gate is answered 201 and
\* leaves a row of that user in the table, and a later GET /cart/ of a user
\* that passed the gate is answered 200 with every row of that user that is
\* in the table.
C28_CreatedItemListed ==
    [][/\ (/\ resp' # resp
           /\ resp'.op = "protected"
           /\ resp'.endpoint = "cart_create"
           /\ resp'.handler)
          => (/\ resp'.status = 201
              /\ \E row \in carts' : row \notin carts
                                     /\ row.user_id = resp'.caller)
       /\ (/\ resp' # resp
           /\ resp'.op = "protected"
           /\ resp'.endpoint = "cart_list"
           /\ resp'.handler)
          => (/\ resp'.status = 200
              /\ \A row \in carts :
                   row.user_id = resp'.caller
                   => \E k \in 1..Len(resp'.items) : resp'.items[k] = row)]_vars

TypeOK == nextId \in 1..(MaxId + 1)
====
